---- MODULE Spec2Model ----
(***************************************************************************)
(* A model of powershap/shap_wrappers/shap_explainer.py: the ShapExplainer *)
(* base class (construction, explain) and its four subclasses              *)
(* (CatboostExplainer, EnsembleExplainer, LinearExplainer,                 *)
(* DeepLearningExplainer).                                                 *)
(*                                                                         *)
(* The caller constructs one explainer around a model object and then      *)
(* calls explain any number of times.  explain is cut into the steps its   *)
(* code takes: Call (lines 81-87), and per iteration DrawFeature (89-94),  *)
(* Split (97-106), FitExplain (108-119), and finally Return (121-123).     *)
(* Objects the code shares by reference (the caller's DataFrame, the       *)
(* caller's model) are cells of a small heap, so that a write through one  *)
(* reference is seen through every other.                                  *)
(*                                                                         *)
(* Numbers: a validation size is held in tenths (3 is 0.3); a uniform draw *)
(* in [-1, 1] is held in halves (-2 .. 2).                                 *)
(***************************************************************************)
EXTENDS Integers, Sequences, FiniteSets, TLC

VARIABLES
    self,          \* the explainer instance: NoExplainer or [kind |-> ...]
    model,         \* the caller's model object, which self.model refers to
    model0,        \* the model object as it was when the caller made it
    ctor,          \* what the last constructor call did
    pc,            \* position in explain: "idle", "loop", "split", "fit", "done"
    frames,        \* heap of DataFrames: "caller" (the argument), "copy"
    X,             \* the local name X of explain: a reference into frames
    X0,            \* the caller's DataFrame as it was when explain was called
    loop_its, val_size, stratify, random_seed_start,   \* arguments of explain
    i,             \* loop variable
    shaps,         \* list of per-iteration rows
    X_train, X_val, Y_train, Y_val,   \* locals of the loop body
    seeds,         \* the seeds given so far to the draw, the split and the fit
    fitLog,        \* the _fit_get_shap calls of this run
    outcome,       \* "running", "table", or the name of the exception raised
    result,        \* the returned DataFrame, or NoTable
    prev           \* the table an immediately preceding run on the same inputs returned

vars == <<self, model, model0, ctor, pc, frames, X, X0, loop_its, val_size,
          stratify, random_seed_start, i, shaps, X_train, X_val, Y_train,
          Y_val, seeds, fitLog, outcome, result, prev>>

-----------------------------------------------------------------------------
(* Bounds of the model *)

NRows == 3
MaxIts == 2
MaxSeedStart == 1

-----------------------------------------------------------------------------
(* Values *)

NoExplainer == [kind |-> "none"]
NoModel == [cls |-> "none", has_seed |-> FALSE, seed_set |-> FALSE, seed |-> 0,
            fitted |-> FALSE]
NoFrame == [cols |-> <<>>, data |-> <<>>]
Unbound == [bound |-> FALSE, cols |-> <<>>, data |-> <<>>]
NoTable == [columns |-> <<>>, rows |-> <<>>]
NoPrev == [has |-> FALSE, table |-> NoTable]

random_col_name == "random_uniform_feature"

RECURSIVE SumSeq(_)
SumSeq(s) == IF s = <<>> THEN 0 ELSE Head(s) + SumSeq(Tail(s))

Abs(v) == IF v < 0 THEN -v ELSE v

Contains(s, e) == \E k \in 1..Len(s) : s[k] = e

-----------------------------------------------------------------------------
(* The caller's data *)

ColumnData(name) ==
    [r \in 1..NRows |->
        CASE name = "f1" -> r
          [] name = "f2" -> 2 - r
          [] OTHER -> 0]

Frame(cols) == [cols |-> cols, data |-> [k \in 1..Len(cols) |-> ColumnData(cols[k])]]

CallerColumns == {<<"f1">>, <<"f1", "f2">>, <<"f2", "f1">>, <<"f1", random_col_name>>}

Labels == [r \in 1..NRows |-> r % 2]

ValSizes == {0, 3, 5, 10}

Stratifications == {"None", "labels", "short"}

-----------------------------------------------------------------------------
(* pandas and numpy *)

\* Variant: every assignment appends a column
SetItemAppend(M, name, column) ==
    [cols |-> Append(M.cols, name), data |-> Append(M.data, column)]

\* X[name] = column: replaces the column of that name, or appends a new one
SetItem(M, name, column) ==
    IF Contains(M.cols, name)
      THEN [cols |-> M.cols,
            data |-> [k \in 1..Len(M.cols) |->
                        IF M.cols[k] = name THEN column ELSE M.data[k]]]
      ELSE [cols |-> Append(M.cols, name), data |-> Append(M.data, column)]

\* X.iloc[idx]: the rows at the positions idx, in that order
ILoc(M, idx) ==
    [bound |-> TRUE,
     cols |-> M.cols,
     data |-> [k \in 1..Len(M.cols) |-> [j \in 1..Len(idx) |-> M.data[k][idx[j]]]]]

\* y[idx]
Take(y, idx) == [j \in 1..Len(idx) |-> y[idx[j]]]

\* DataFrame.values: the row-major array of a column store
Values(M) ==
    IF Len(M.data) = 0 THEN <<>>
    ELSE [r \in 1..Len(M.data[1]) |-> [c \in 1..Len(M.data) |-> M.data[c][r]]]

\* RandomState(seed).uniform(-1, 1, n), in halves
Uniform(seed, n) == [r \in 1..n |-> ((seed * 3 + r * 2) % 5) - 2]

\* RandomState(seed).permutation(n), and the order a stratified shuffle yields
Permutation(seed, n) == [k \in 1..n |-> ((k - 1 + seed) % n) + 1]
StratifiedPermutation(seed, n) == [k \in 1..n |-> ((n - k + seed) % n) + 1]

\* sklearn.model_selection.train_test_split(np.arange(n), test_size, random_state,
\* stratify): test_size in tenths
TrainTestSplit(n, test_size, random_state, strat) ==
    LET n_test == (test_size * n + 9) \div 10
        n_train == n - n_test
        perm == IF strat = "None" THEN Permutation(random_state, n)
                ELSE StratifiedPermutation(random_state, n)
    IN  IF test_size <= 0 \/ test_size >= 10 \/ strat = "short" \/ n_train = 0
          THEN [raised |-> "ValueError", train_idx |-> <<>>, val_idx |-> <<>>]
          ELSE [raised |-> "none",
                train_idx |-> SubSeq(perm, n_test + 1, n_test + n_train),
                val_idx |-> SubSeq(perm, 1, n_test)]

\* np.mean(np.abs(Shap_values), axis=0).astype("float32"): the mean in quarters,
\* then cut to halves
MeanAbs(Shap_values) ==
    LET n == Len(Shap_values)
        m == Len(Shap_values[1])
    IN  [c \in 1..m |->
            ((SumSeq([r \in 1..n |-> Abs(Shap_values[r][c])]) * 4) \div n) \div 2]

-----------------------------------------------------------------------------
(* Models and the libraries that fit and explain them *)

\* a freshly made, unfitted model of class cls; LinearRegression has no
\* random_state parameter, every other class here has a seed parameter
NewModel(cls) ==
    [cls |-> cls, has_seed |-> cls # "LinearRegression", seed_set |-> FALSE,
     seed |-> 0, fitted |-> FALSE]

ModelClasses == {"CatBoostClassifier", "RandomForestClassifier", "SGDClassifier",
                 "LinearRegression", "KerasModel", "SVC"}

ExplainerKinds == {"CatboostExplainer", "EnsembleExplainer", "LinearExplainer",
                   "DeepLearningExplainer"}

CatboostSupportsModel(m) == m.cls \in {"CatBoostRegressor", "CatBoostClassifier"}

EnsembleSupportsModel(m) ==
    m.cls \in {"RandomForestRegressor", "RandomForestClassifier",
               "GradientBoostingClassifier"}

LinearSupportsModel(m) ==
    m.cls \in {"LogisticRegression", "LinearRegression", "SGDClassifier"}

DeepLearningSupportsModel(m) == m.cls \in {"KerasModel", "TorchModule"}

\* self.supports_model(model), dispatched on the subclass
supports_model(kind, m) ==
    CASE kind = "CatboostExplainer" -> CatboostSupportsModel(m)
      [] kind = "EnsembleExplainer" -> EnsembleSupportsModel(m)
      [] kind = "LinearExplainer" -> LinearSupportsModel(m)
      [] kind = "DeepLearningExplainer" -> DeepLearningSupportsModel(m)
      [] OTHER -> FALSE

\* sklearn.base.clone(m) and catboost's m.copy(): a new object with m's parameters
Clone(m) == [m EXCEPT !.fitted = FALSE]

\* m.set_params(random_state=seed) or (random_seed=seed): sets it on m and returns m;
\* raises when m has no such parameter
SetParams(m, seed) ==
    IF m.has_seed
      THEN [raised |-> "none", model |-> [m EXCEPT !.seed_set = TRUE, !.seed = seed]]
      ELSE [raised |-> "ValueError", model |-> m]

\* what fitting m on (X_train, Y_train) learns: one weight per column, which
\* depends on the data, on the seed when one is set, and on the eval_set when given
Coef(m, Xtr, Ytr, eval_Y) ==
    [c \in 1..Len(Xtr[1]) |->
        SumSeq([r \in 1..Len(Xtr) |-> Xtr[r][c] * (2 * Ytr[r] - 1)])
        + (IF m.seed_set THEN ((m.seed + c) % 3) - 1 ELSE 0)
        + SumSeq(eval_Y)]

\* shap.TreeExplainer(fitted).shap_values(X_val): rows of X_val by columns
TreeShapValues(coef, Xv) ==
    [r \in 1..Len(Xv) |-> [c \in 1..Len(coef) |-> coef[c] * Xv[r][c]]]

\* shap.explainers.Linear(fitted, X_train).shap_values(X_val): against the
\* background X_train
LinearShapValues(coef, Xtr, Xv) ==
    [r \in 1..Len(Xv) |->
        [c \in 1..Len(coef) |->
            coef[c] * (Len(Xtr) * Xv[r][c]
                       - SumSeq([q \in 1..Len(Xtr) |-> Xtr[q][c]]))]]

\* The result of one _fit_get_shap call: what it raised, the object self.model
\* refers to afterwards, the model that was fitted, and the array returned.
FitResult(raised, template, fitted, fallback, shap) ==
    [raised |-> raised, template |-> template, fitted |-> fitted,
     fallback |-> fallback, shap |-> shap]

\* CatboostExplainer._fit_get_shap; backend_ok: whether catboost and shap succeed
CatboostFitGetShap(self_model, Xtr, Ytr, Xv, Yv, random_seed, backend_ok) ==
    LET sp == SetParams(Clone(self_model), random_seed)
        PowerSHAP_model == [sp.model EXCEPT !.fitted = TRUE]
    IN  IF sp.raised # "none"
          THEN FitResult(sp.raised, self_model, NoModel, FALSE, <<>>)
        ELSE IF ~backend_ok
          THEN FitResult("BackendError", self_model, sp.model, FALSE, <<>>)
        ELSE FitResult("none", self_model, PowerSHAP_model, FALSE,
                       TreeShapValues(Coef(sp.model, Xtr, Ytr, Yv), Xv))

\* Variant: set_params and fit on self.model itself
EnsembleFitInPlace(self_model, Xtr, Ytr, Xv, Yv, random_seed, backend_ok) ==
    LET sp == SetParams(self_model, random_seed)
        PowerSHAP_model == [sp.model EXCEPT !.fitted = TRUE]
    IN  IF sp.raised # "none"
          THEN FitResult(sp.raised, self_model, NoModel, FALSE, <<>>)
        ELSE IF ~backend_ok
          THEN FitResult("BackendError", sp.model, sp.model, FALSE, <<>>)
        ELSE FitResult("none", PowerSHAP_model, PowerSHAP_model, FALSE,
                       TreeShapValues(Coef(sp.model, Xtr, Ytr, <<>>), Xv))

\* EnsembleExplainer._fit_get_shap
EnsembleFitGetShap(self_model, Xtr, Ytr, Xv, Yv, random_seed, backend_ok) ==
    LET sp == SetParams(Clone(self_model), random_seed)
        PowerSHAP_model == [sp.model EXCEPT !.fitted = TRUE]
    IN  IF sp.raised # "none"
          THEN FitResult(sp.raised, self_model, NoModel, FALSE, <<>>)
        ELSE IF ~backend_ok
          THEN FitResult("BackendError", self_model, sp.model, FALSE, <<>>)
        ELSE FitResult("none", self_model, PowerSHAP_model, FALSE,
                       TreeShapValues(Coef(sp.model, Xtr, Ytr, <<>>), Xv))

\* Variant: no try/except around set_params
LinearNoFallback(self_model, Xtr, Ytr, Xv, Yv, random_seed, backend_ok) ==
    LET sp == SetParams(Clone(self_model), random_seed)
        PowerSHAP_model == [sp.model EXCEPT !.fitted = TRUE]
    IN  IF sp.raised # "none"
          THEN FitResult(sp.raised, self_model, NoModel, FALSE, <<>>)
        ELSE IF ~backend_ok
          THEN FitResult("BackendError", self_model, sp.model, FALSE, <<>>)
        ELSE FitResult("none", self_model, PowerSHAP_model, FALSE,
                       LinearShapValues(Coef(sp.model, Xtr, Ytr, <<>>), Xtr, Xv))

\* LinearExplainer._fit_get_shap: the bare except falls back to a plain clone
LinearFitGetShap(self_model, Xtr, Ytr, Xv, Yv, random_seed, backend_ok) ==
    LET sp == SetParams(Clone(self_model), random_seed)
        unfitted == IF sp.raised # "none" THEN Clone(self_model) ELSE sp.model
        PowerSHAP_model == [unfitted EXCEPT !.fitted = TRUE]
    IN  IF ~backend_ok
          THEN FitResult("BackendError", self_model, unfitted, sp.raised # "none", <<>>)
        ELSE FitResult("none", self_model, PowerSHAP_model, sp.raised # "none",
                       LinearShapValues(Coef(unfitted, Xtr, Ytr, <<>>), Xtr, Xv))

\* DeepLearningExplainer._fit_get_shap: raises before anything else
DeepLearningFitGetShap(self_model, Xtr, Ytr, Xv, Yv, random_seed, backend_ok) ==
    FitResult("NotImplementedError", self_model, NoModel, FALSE, <<>>)

\* self._fit_get_shap(...), dispatched on the subclass
_fit_get_shap(kind, self_model, Xtr, Ytr, Xv, Yv, random_seed, backend_ok) ==
    CASE kind = "CatboostExplainer" ->
            CatboostFitGetShap(self_model, Xtr, Ytr, Xv, Yv, random_seed, backend_ok)
      [] kind = "EnsembleExplainer" ->
            EnsembleFitGetShap(self_model, Xtr, Ytr, Xv, Yv, random_seed, backend_ok)
      [] kind = "LinearExplainer" ->
            LinearFitGetShap(self_model, Xtr, Ytr, Xv, Yv, random_seed, backend_ok)
      [] OTHER ->
            DeepLearningFitGetShap(self_model, Xtr, Ytr, Xv, Yv, random_seed, backend_ok)

-----------------------------------------------------------------------------
(* ShapExplainer *)

NumRows(M) == IF Len(M.data) = 0 THEN 0 ELSE Len(M.data[1])

\* Variant: no assertion in __init__
InitNoAssertion(kind, m) == TRUE

\* assert self.supports_model(model)
InitAssertion(kind, m) == supports_model(kind, m)

\* Variant: no assertion on the column names
ReservedNameUnchecked(M) == TRUE

\* assert not random_col_name in X.columns
ReservedNameFree(M) == ~Contains(M.cols, random_col_name)

\* Variant: no copy, X goes on referring to the caller's DataFrame
XNoCopy(heap) == [heap |-> heap, ref |-> "caller"]

\* X = X.copy(deep=True): a new DataFrame object, to which X then refers
XCopy(heap) == [heap |-> [heap EXCEPT !.copy = heap.caller], ref |-> "copy"]

\* Variant: the new row goes first
PrependRow(rows, row) == <<row>> \o rows

\* shaps += [row]
AppendRow(rows, row) == Append(rows, row)

Init ==
    /\ self = NoExplainer
    /\ model = NoModel
    /\ model0 = NoModel
    /\ ctor = "none"
    /\ pc = "idle"
    /\ frames = [caller |-> NoFrame, copy |-> NoFrame]
    /\ X = "caller"
    /\ X0 = NoFrame
    /\ loop_its = 0
    /\ val_size = 0
    /\ stratify = "None"
    /\ random_seed_start = 0
    /\ i = 0
    /\ shaps = <<>>
    /\ X_train = Unbound
    /\ X_val = Unbound
    /\ Y_train = <<>>
    /\ Y_val = <<>>
    /\ seeds = [draw |-> <<>>, split |-> <<>>, fit |-> <<>>]
    /\ fitLog = <<>>
    /\ outcome = "none"
    /\ result = NoTable
    /\ prev = NoPrev

\* The caller makes a model of class cls and constructs an explainer of the
\* given subclass around it: ShapExplainer.__init__
Construct(kind, cls) ==
    /\ self = NoExplainer
    /\ pc = "idle"
    /\ model' = NewModel(cls)
    /\ model0' = NewModel(cls)
    /\ IF InitAssertion(kind, NewModel(cls))
         THEN self' = [kind |-> kind] /\ ctor' = "ok"
         ELSE self' = NoExplainer /\ ctor' = "AssertionError"
    /\ UNCHANGED <<pc, frames, X, X0, loop_its, val_size, stratify,
                   random_seed_start, i, shaps, X_train, X_val, Y_train, Y_val,
                   seeds, fitLog, outcome, result, prev>>

\* explain is called: lines 81-87
Call(cols, its, val, strat, start) ==
    LET heap == [caller |-> Frame(cols), copy |-> NoFrame]
        copied == XCopy(heap)
        repeats == /\ outcome = "table"
                   /\ X0 = Frame(cols)
                   /\ val_size = val
                   /\ stratify = strat
                   /\ random_seed_start = start
    IN  /\ self # NoExplainer
        /\ pc \in {"idle", "done"}
        /\ X0' = Frame(cols)
        /\ loop_its' = its
        /\ val_size' = val
        /\ stratify' = strat
        /\ random_seed_start' = start
        /\ prev' = IF repeats THEN [has |-> TRUE, table |-> result] ELSE NoPrev
        /\ i' = 0
        /\ shaps' = <<>>
        /\ X_train' = Unbound
        /\ X_val' = Unbound
        /\ Y_train' = <<>>
        /\ Y_val' = <<>>
        /\ seeds' = [draw |-> <<>>, split |-> <<>>, fit |-> <<>>]
        /\ fitLog' = <<>>
        /\ result' = NoTable
        /\ IF ReservedNameFree(Frame(cols))
             THEN /\ frames' = copied.heap
                  /\ X' = copied.ref
                  /\ pc' = "loop"
                  /\ outcome' = "running"
             ELSE /\ frames' = heap
                  /\ X' = "caller"
                  /\ pc' = "done"
                  /\ outcome' = "AssertionError"
        /\ UNCHANGED <<self, model, model0, ctor>>

\* lines 89-94: the loop goes on; draw the random feature and store it in X
DrawFeature ==
    LET npRandomState == i + random_seed_start
        random_uniform_feature == Uniform(npRandomState, NumRows(frames[X]))
    IN  /\ pc = "loop"
        /\ i < loop_its
        /\ frames' = [frames EXCEPT
                        ![X] = SetItem(@, "random_uniform_feature", random_uniform_feature)]
        /\ seeds' = [seeds EXCEPT !.draw = Append(@, npRandomState)]
        /\ pc' = "split"
        /\ UNCHANGED <<self, model, model0, ctor, X, X0, loop_its, val_size,
                       stratify, random_seed_start, i, shaps, X_train, X_val,
                       Y_train, Y_val, fitLog, outcome, result, prev>>

\* lines 97-106: the train-test split and the four slices
Split ==
    LET sp == TrainTestSplit(NumRows(frames[X]), val_size, i, stratify)
    IN  /\ pc = "split"
        /\ seeds' = [seeds EXCEPT !.split = Append(@, i)]
        /\ IF sp.raised # "none"
             THEN /\ pc' = "done"
                  /\ outcome' = sp.raised
                  /\ UNCHANGED <<X_train, X_val, Y_train, Y_val>>
             ELSE /\ X_train' = ILoc(frames[X], sp.train_idx)
                  /\ X_val' = ILoc(frames[X], sp.val_idx)
                  /\ Y_train' = Take(Labels, sp.train_idx)
                  /\ Y_val' = Take(Labels, sp.val_idx)
                  /\ pc' = "fit"
                  /\ UNCHANGED outcome
        /\ UNCHANGED <<self, model, model0, ctor, frames, X, X0, loop_its,
                       val_size, stratify, random_seed_start, i, shaps, fitLog,
                       result, prev>>

\* Variant: an exception of _fit_get_shap is caught and the iteration skipped
FitExplainSwallow ==
    \E backend_ok \in BOOLEAN :
        LET random_seed == i + random_seed_start
            r == _fit_get_shap(self.kind, model, Values(X_train), Y_train,
                               Values(X_val), Y_val, random_seed, backend_ok)
        IN  /\ pc = "fit"
            /\ model' = r.template
            /\ seeds' = [seeds EXCEPT !.fit = Append(@, random_seed)]
            /\ fitLog' = Append(fitLog,
                                [kind |-> self.kind, cls |-> model.cls,
                                 random_seed |-> random_seed, fitted |-> r.fitted,
                                 fallback |-> r.fallback, raised |-> r.raised,
                                 backend_ok |-> backend_ok])
            /\ shaps' = IF r.raised # "none" THEN shaps
                        ELSE AppendRow(shaps, MeanAbs(r.shap))
            /\ i' = i + 1
            /\ pc' = "loop"
            /\ UNCHANGED <<self, model0, ctor, frames, X, X0, loop_its, val_size,
                           stratify, random_seed_start, X_train, X_val, Y_train,
                           Y_val, outcome, result, prev>>

\* lines 108-119: fit and explain, reduce to one row, next iteration.  An
\* exception of _fit_get_shap is not caught.
FitExplain ==
    \E backend_ok \in BOOLEAN :
        LET random_seed == i + random_seed_start
            r == _fit_get_shap(self.kind, model, Values(X_train), Y_train,
                               Values(X_val), Y_val, random_seed, backend_ok)
        IN  /\ pc = "fit"
            /\ model' = r.template
            /\ seeds' = [seeds EXCEPT !.fit = Append(@, random_seed)]
            /\ fitLog' = Append(fitLog,
                                [kind |-> self.kind, cls |-> model.cls,
                                 random_seed |-> random_seed, fitted |-> r.fitted,
                                 fallback |-> r.fallback, raised |-> r.raised,
                                 backend_ok |-> backend_ok])
            /\ IF r.raised # "none"
                 THEN /\ pc' = "done"
                      /\ outcome' = r.raised
                      /\ UNCHANGED <<i, shaps>>
                 ELSE /\ shaps' = AppendRow(shaps, MeanAbs(r.shap))
                      /\ i' = i + 1
                      /\ pc' = "loop"
                      /\ UNCHANGED outcome
            /\ UNCHANGED <<self, model0, ctor, frames, X, X0, loop_its, val_size,
                           stratify, random_seed_start, X_train, X_val, Y_train,
                           Y_val, result, prev>>

\* lines 121-123: the loop is over; build the DataFrame from shaps and the column
\* names of X_train, a local that is unbound when no iteration ran
Return ==
    /\ pc = "loop"
    /\ i >= loop_its
    /\ pc' = "done"
    /\ IF ~X_train.bound
         THEN outcome' = "UnboundLocalError" /\ UNCHANGED result
       ELSE IF \E k \in 1..Len(shaps) : Len(shaps[k]) # Len(X_train.cols)
         THEN outcome' = "ValueError" /\ UNCHANGED result
       ELSE /\ outcome' = "table"
            /\ result' = [columns |-> X_train.cols, rows |-> shaps]
    /\ UNCHANGED <<self, model, model0, ctor, frames, X, X0, loop_its, val_size,
                   stratify, random_seed_start, i, shaps, X_train, X_val,
                   Y_train, Y_val, seeds, fitLog, prev>>

Next ==
    \/ \E kind \in ExplainerKinds, cls \in ModelClasses : Construct(kind, cls)
    \/ \E cols \in CallerColumns, its \in -1..MaxIts, val \in ValSizes,
          strat \in Stratifications, start \in 0..MaxSeedStart :
            Call(cols, its, val, strat, start)
    \/ DrawFeature
    \/ Split
    \/ FitExplain
    \/ Return

Spec == Init /\ [][Next]_vars

-----------------------------------------------------------------------------
(* Properties *)

Called == outcome # "none"

ValidFraction(val) == 0 < val /\ val < 10

HasReservedColumn(M) == Contains(M.cols, random_col_name)

AdapterFailed(e) == e.raised # "none"

OkCalls == {k \in 1..Len(fitLog) : fitLog[k].raised = "none"}

Min(a, b) == IF a < b THEN a ELSE b

\* C1: in every iteration k of explain the seed k + random_seed_start is the seed
\* of the random-feature draw, of the train/validation split and of _fit_get_shap.
C1_EffectiveSeedEverywhere ==
    /\ \A k \in 1..Len(seeds.draw) : seeds.draw[k] = (k - 1) + random_seed_start
    /\ \A k \in 1..Len(seeds.split) : seeds.split[k] = (k - 1) + random_seed_start
    /\ \A k \in 1..Len(seeds.fit) : seeds.fit[k] = (k - 1) + random_seed_start

\* C2: a returned table has exactly loop_its rows and one column per original
\* feature plus one, named as the original columns in their order followed by the
\* reserved name; a run on valid inputs whose adapter never fails returns a table;
\* the working DataFrame never has more than one column beyond the original ones.
C2_TableShape ==
    /\ outcome = "table" =>
          /\ loop_its > 0
          /\ Len(result.rows) = loop_its
          /\ \A k \in 1..Len(result.rows) : Len(result.rows[k]) = Len(X0.cols) + 1
          /\ result.columns = Append(X0.cols, random_col_name)
    /\ ( /\ pc = "done"
         /\ loop_its > 0
         /\ ~HasReservedColumn(X0)
         /\ TrainTestSplit(NRows, val_size, 0, stratify).raised = "none"
         /\ \A k \in 1..Len(fitLog) : ~AdapterFailed(fitLog[k]) )
       => outcome = "table"
    /\ outcome \in {"running", "table"} => Len(frames[X].cols) <= Len(X0.cols) + 1

C2_Witness ==
    /\ outcome = "table"
    /\ loop_its = 2
    /\ X0.cols = <<"f2", "f1">>
    /\ result.columns = <<"f2", "f1", "random_uniform_feature">>

\* C3: a run called with a non-positive iteration count or a validation fraction
\* outside (0,1) draws no random feature, attempts no split, never calls
\* _fit_get_shap and returns no table.
C3_InvalidArgsFailBeforeAnyIteration ==
    (Called /\ (loop_its <= 0 \/ ~ValidFraction(val_size))) =>
        /\ seeds.draw = <<>>
        /\ seeds.split = <<>>
        /\ fitLog = <<>>
        /\ outcome # "table"

\* C4: a run on a DataFrame that already has a column of the reserved name fails
\* with the assertion, with no _fit_get_shap call and no table.
C4_ReservedNameCollision ==
    (Called /\ HasReservedColumn(X0)) =>
        /\ outcome = "AssertionError"
        /\ pc = "done"
        /\ fitLog = <<>>
        /\ seeds.draw = <<>>
        /\ result = NoTable

C4_Witness ==
    /\ self # NoExplainer
    /\ HasReservedColumn(X0)
    /\ outcome = "AssertionError"

\* C5: at every point during and after a run the caller's DataFrame is as it was
\* when explain was called, and has the random feature only if the caller put it
\* there; the random feature is written to the copy.
C5_CallerFrameUntouched ==
    /\ frames.caller = X0
    /\ seeds.draw # <<>> =>
          /\ X = "copy"
          /\ HasReservedColumn(frames.copy)
          /\ ~HasReservedColumn(frames.caller)

C5_Witness ==
    /\ pc = "done"
    /\ Len(seeds.draw) = 2
    /\ HasReservedColumn(frames.copy)
    /\ frames.caller = Frame(<<"f1", "f2">>)

\* C6: when _fit_get_shap raises in iteration k, the run is over with that very
\* exception as its outcome, no table, exactly k + 1 calls of _fit_get_shap of
\* which only the last raised, and k rows; the deep-learning explainer raises
\* NotImplementedError in iteration 0.
C6_AdapterFailureAborts ==
    /\ \A k \in 1..Len(fitLog) :
          AdapterFailed(fitLog[k]) =>
             /\ k = Len(fitLog)
             /\ pc = "done"
             /\ outcome = fitLog[k].raised
             /\ result = NoTable
             /\ Len(fitLog) = i + 1
             /\ Len(shaps) = i
    /\ (self.kind = "DeepLearningExplainer" /\ fitLog # <<>>) =>
          /\ Len(fitLog) = 1
          /\ i = 0
          /\ outcome = "NotImplementedError"

C6_Witness ==
    /\ Len(fitLog) = 2
    /\ fitLog[2].raised = "BackendError"
    /\ outcome = "BackendError"
    /\ i = 1

\* C7: an explainer exists only around a model its supports_model accepts; a
\* refused construction leaves no explainer, and every _fit_get_shap call is made
\* by an explainer on a model it supports.
C7_UnsupportedModelRefused ==
    /\ self # NoExplainer => supports_model(self.kind, model)
    /\ ctor = "AssertionError" =>
          /\ self = NoExplainer
          /\ ~Called
          /\ fitLog = <<>>
    /\ \A k \in 1..Len(fitLog) :
          supports_model(fitLog[k].kind, NewModel(fitLog[k].cls))

C7_Witness ==
    /\ ctor = "AssertionError"
    /\ model.cls = "RandomForestClassifier"
    /\ self = NoExplainer

\* C8: the model the explainer holds stays as the caller made it, unfitted and
\* with no seed set, through every call and every run; what is seeded and fitted
\* is another object with the same class.
C8_TemplateNeverMutated ==
    /\ model = model0
    /\ ~model.fitted
    /\ ~model.seed_set
    /\ \A k \in OkCalls :
          /\ fitLog[k].fitted.fitted
          /\ fitLog[k].fitted.cls = model.cls
          /\ fitLog[k].fitted # model
          /\ ~fitLog[k].fallback =>
                /\ fitLog[k].fitted.seed_set
                /\ fitLog[k].fitted.seed = fitLog[k].random_seed

C8_Witness ==
    /\ self.kind = "EnsembleExplainer"
    /\ Len(fitLog) = 2
    /\ OkCalls = {1, 2}
    /\ prev.has

\* C9: two runs of the same explainer on the same X, y, validation size,
\* stratification and seed start, with iteration counts n and m, return tables
\* with the same columns that agree on every row below min(n, m).
C9_RowsDependOnlyOnInputs ==
    (outcome = "table" /\ prev.has) =>
        /\ result.columns = prev.table.columns
        /\ \A k \in 1..Min(Len(result.rows), Len(prev.table.rows)) :
              result.rows[k] = prev.table.rows[k]

C9_Witness ==
    /\ outcome = "table"
    /\ prev.has
    /\ Len(prev.table.rows) = 2
    /\ Len(result.rows) = 1
    /\ prev.table.rows[1] # prev.table.rows[2]

\* C10: a LinearExplainer call on a model without a random_state parameter takes
\* the fallback: it raises nothing of its own, fits an unseeded clone and returns
\* its shap values, and the iteration's row is recorded.
C10_LinearSeedFallback ==
    /\ \A k \in 1..Len(fitLog) :
          (fitLog[k].kind = "LinearExplainer" /\ ~NewModel(fitLog[k].cls).has_seed) =>
             /\ fitLog[k].fallback
             /\ ~fitLog[k].fitted.seed_set
             /\ fitLog[k].raised \in {"none", "BackendError"}
             /\ fitLog[k].backend_ok =>
                   /\ fitLog[k].raised = "none"
                   /\ fitLog[k].fitted.fitted
    /\ Len(shaps) = Cardinality(OkCalls)

C10_Witness ==
    /\ self.kind = "LinearExplainer"
    /\ model.cls = "LinearRegression"
    /\ Len(fitLog) = 2
    /\ fitLog[2].fallback
    /\ Len(shaps) = 2
    /\ outcome = "table"

====
